---- MODULE Spec2Model ----
(***************************************************************************)
(* igl::copyleft::cgal::closest_facet (closest_facet.cpp): for each query  *)
(* point, the facet of the selected sub-mesh it belongs to and the side of *)
(* that facet it lies on.  The exact kernel's predicates are computed on   *)
(* integer coordinates, the AABB tree is a traversal order of the          *)
(* triangles, and one call of closest_facet is the state machine.          *)
(***************************************************************************)
EXTENDS Integers, Sequences, FiniteSets

(***************************************************************************)
(* Bounds of the model.                                                    *)
(***************************************************************************)
\* largest number of rows of the facet subset I
MaxSel == 3
\* largest number of rows of the query table P
MaxQueries == 2
\* largest number of rows of P in the scenes with the T-junction facet
MaxJunctionQueries == 1
\* largest number of rays reorient_facets_raycast shoots
MaxRays == 3

(***************************************************************************)
(* Exact kernel: points are integer triples, predicates are signs of       *)
(* determinants (CGAL::Exact_predicates_exact_constructions_kernel).       *)
(***************************************************************************)
\* Body applied to the value of v
With(v, Body(_)) == CHOOSE r \in { Body(x) : x \in {v} } : TRUE

Sign(n) == IF n > 0 THEN 1 ELSE IF n < 0 THEN -1 ELSE 0

Abs(n) == IF n < 0 THEN -n ELSE n

Sub(a, b) == <<a[1] - b[1], a[2] - b[2], a[3] - b[3]>>

Add(a, b) == <<a[1] + b[1], a[2] + b[2], a[3] + b[3]>>

Scale(k, a) == <<k * a[1], k * a[2], k * a[3]>>

Dot(a, b) == a[1] * b[1] + a[2] * b[2] + a[3] * b[3]

Cross(a, b) ==
    << a[2] * b[3] - a[3] * b[2],
       a[3] * b[1] - a[1] * b[3],
       a[1] * b[2] - a[2] * b[1] >>

\* CGAL::orientation(p, q, r, s): sign of det(q-p, r-p, s-p)
Orientation(p, q, r, s) == Sign(Dot(Cross(Sub(q, p), Sub(r, p)), Sub(s, p)))

\* CGAL::collinear(p, q, r)
Collinear(p, q, r) == Cross(Sub(q, p), Sub(r, p)) = <<0, 0, 0>>

\* Triangle_3::is_degenerate()
IsDegenerate(t) == Collinear(t[1], t[2], t[3])

\* Plane_3(p, q, r).oriented_side(x); the plane is the triple <<p, q, r>>
OrientedSide(pl, x) == Orientation(pl[1], pl[2], pl[3], x)

\* Plane_3::is_degenerate()
PlaneIsDegenerate(pl) == Collinear(pl[1], pl[2], pl[3])

RECURSIVE Gcd(_, _)
Gcd(a, b) == IF b = 0 THEN a ELSE Gcd(b, a % b)

\* An exact point with rational coordinates: <<x, y, z>> / w with w > 0,
\* in lowest terms.
Rational(n, w) ==
    LET g == Gcd(Gcd(Gcd(w, Abs(n[1])), Abs(n[2])), Abs(n[3]))
    IN  [n |-> <<n[1] \div g, n[2] \div g, n[3] \div g>>, w |-> w \div g]

\* The point of triangle t = <<a, b, c>> nearest to p, with exact
\* constructions (the projection the tree's closest-point traversal uses).
ClosestPointOnTriangle(p, t) ==
    LET a  == t[1]
        b  == t[2]
        c  == t[3]
        ab == Sub(b, a)
        ac == Sub(c, a)
        bc == Sub(c, b)
        d1 == Dot(ab, Sub(p, a))
        d2 == Dot(ac, Sub(p, a))
        d3 == Dot(ab, Sub(p, b))
        d4 == Dot(ac, Sub(p, b))
        d5 == Dot(ab, Sub(p, c))
        d6 == Dot(ac, Sub(p, c))
        vc == d1 * d4 - d3 * d2
        vb == d5 * d2 - d1 * d6
        va == d3 * d6 - d5 * d4
    IN  IF d1 <= 0 /\ d2 <= 0 THEN Rational(a, 1)
        ELSE IF d3 >= 0 /\ d4 <= d3 THEN Rational(b, 1)
        ELSE IF vc <= 0 /\ d1 >= 0 /\ d3 <= 0
             THEN Rational(Add(Scale(d1 - d3, a), Scale(d1, ab)), d1 - d3)
        ELSE IF d6 >= 0 /\ d5 <= d6 THEN Rational(c, 1)
        ELSE IF vb <= 0 /\ d2 >= 0 /\ d6 <= 0
             THEN Rational(Add(Scale(d2 - d6, a), Scale(d2, ac)), d2 - d6)
        ELSE IF va <= 0 /\ d4 - d3 >= 0 /\ d5 - d6 >= 0
             THEN Rational(Add(Scale((d4 - d3) + (d5 - d6), b),
                               Scale(d4 - d3, bc)),
                           (d4 - d3) + (d5 - d6))
        ELSE Rational(Add(Scale(va + vb + vc, a),
                          Add(Scale(vb, ab), Scale(vc, ac))),
                      va + vb + vc)

\* squared distance from the integer point p to the rational point r, as
\* the fraction <<numerator, denominator>>
SqDist(p, r) ==
    LET dlt == Sub(Scale(r.w, p), r.n)
    IN  <<Dot(dlt, dlt), r.w * r.w>>

FracLess(x, y) == x[1] * y[2] < y[1] * x[2]

\* x coplanar with t: x lies in the closed triangle
PointInTriangle(x, t) ==
    LET n == Cross(Sub(t[2], t[1]), Sub(t[3], t[1]))
    IN  /\ Dot(Cross(Sub(t[2], t[1]), Sub(x, t[1])), n) >= 0
        /\ Dot(Cross(Sub(t[3], t[2]), Sub(x, t[2])), n) >= 0
        /\ Dot(Cross(Sub(t[1], t[3]), Sub(x, t[3])), n) >= 0

\* the segments a-b and c-d, all in one plane of normal n, meet
CoplanarSegmentsMeet(a, b, c, d, n) ==
    LET o(u, v, w) == Sign(Dot(Cross(Sub(v, u), Sub(w, u)), n))
        within(u, v, w) == Dot(Sub(w, u), Sub(w, v)) <= 0
        o1 == o(c, d, a)
        o2 == o(c, d, b)
        o3 == o(a, b, c)
        o4 == o(a, b, d)
    IN  \/ o1 * o2 < 0 /\ o3 * o4 < 0
        \/ o1 = 0 /\ within(c, d, a)
        \/ o2 = 0 /\ within(c, d, b)
        \/ o3 = 0 /\ within(a, b, c)
        \/ o4 = 0 /\ within(a, b, d)

\* CGAL::do_intersect(Segment_3(a, b), Triangle_3 t), t not degenerate
DoIntersect(a, b, t) ==
    LET oa == Orientation(t[1], t[2], t[3], a)
        ob == Orientation(t[1], t[2], t[3], b)
        n  == Cross(Sub(t[2], t[1]), Sub(t[3], t[1]))
        s1 == Orientation(a, b, t[1], t[2])
        s2 == Orientation(a, b, t[2], t[3])
        s3 == Orientation(a, b, t[3], t[1])
    IN  IF oa * ob > 0 THEN FALSE
        ELSE IF oa = 0 /\ ob = 0
             THEN \/ PointInTriangle(a, t)
                  \/ PointInTriangle(b, t)
                  \/ CoplanarSegmentsMeet(a, b, t[1], t[2], n)
                  \/ CoplanarSegmentsMeet(a, b, t[2], t[3], n)
                  \/ CoplanarSegmentsMeet(a, b, t[3], t[1], n)
        ELSE IF oa = 0 THEN PointInTriangle(a, t)
        ELSE IF ob = 0 THEN PointInTriangle(b, t)
        ELSE \/ s1 >= 0 /\ s2 >= 0 /\ s3 >= 0
             \/ s1 <= 0 /\ s2 <= 0 /\ s3 <= 0

(***************************************************************************)
(* The mesh.  Arrays are indexed from 0 as in the source.                  *)
(***************************************************************************)
\* the tuple s as an array indexed from 0
Z(s) == [k \in 0..(Len(s) - 1) |-> s[k + 1]]

Rows(a) == Cardinality(DOMAIN a)

\* vertex table V: the origin, three points on the positive axes, and the
\* midpoint of the edge (0, 1)
V ==
    Z(<< <<0, 0, 0>>, <<4, 0, 0>>, <<0, 4, 0>>, <<0, 0, 4>>, <<2, 0, 0>> >>)

\* facet table F: three consistently wound facets around vertex 0, the
\* zero-area facet 3, and facet 4, which meets the edge (0, 1) at its
\* midpoint only (a T-junction)
F ==
    Z(<< Z(<<0, 1, 2>>), Z(<<3, 1, 0>>), Z(<<3, 0, 2>>), Z(<<0, 1, 4>>),
         Z(<<4, 1, 3>>) >>)

\* the facets that meet edge to edge, and the zero-area one
CornerFacets == DOMAIN F \ {Rows(F) - 1}

\* the query points P is drawn from
QueryPoints ==
    { <<1, 1, 1>>, <<1, 1, 0>>, <<2, -1, -1>>, <<-1, 2, -1>>,
      <<-1, -1, -1>>, <<-1, -1, 0>>, <<3, 3, 1>> }

\* std::numeric_limits<size_t>::max(), that is (size_t)(-1): no vertex index
SIZE_MAX == -1

VARIABLES
    I,          \* the facet subset (input)
    P,          \* the query points (input)
    pc,         \* position in closest_facet
    triangles,  \* std::vector<Triangle>
    tree,       \* the AABB tree: the traversal order of the primitives
    R,          \* output column of facet ids; a slot is <<>> until assigned
    S,          \* output column of orientations; a slot is <<>> until assigned
    i,          \* the query loop's index
    err,        \* what() of the exception that left closest_facet
    call,       \* what the last loop iteration computed
    prev        \* the outputs of an earlier call on the same facets, or <<>>

\* reorient_facets_raycast (reorient_facets_raycast.cpp), from the voting on
VARIABLES
    use_parity,       \* parameter use_parity
    rays,             \* ray_face[i] with what ei.intersectRay finds for ray i
    stage,            \* where iteration i of the parallel loop stands
    C_vote_distance,  \* per patch: first = front, second = back
    C_vote_infinity,
    C_vote_parity,
    flip,             \* the output I of reorient_facets_raycast
    rpc               \* position in reorient_facets_raycast

raycast == <<use_parity, rays, stage, C_vote_distance, C_vote_infinity,
             C_vote_parity, flip, rpc>>

vars == <<I, P, pc, triangles, tree, R, S, i, err, call, prev, raycast>>

\* reorient_facets_raycast is not running
RaycastIdle ==
    /\ use_parity = FALSE
    /\ rays = <<>>
    /\ stage = <<>>
    /\ C_vote_distance = <<>>
    /\ C_vote_infinity = <<>>
    /\ C_vote_parity = <<>>
    /\ flip = <<>>
    /\ rpc = "idle"

\* the tuples without repetition of at most n elements of set s
RECURSIVE Arrangements(_, _)
Arrangements(s, n) ==
    IF n = 0 THEN {<<>>}
    ELSE LET shorter == Arrangements(s, n - 1)
         IN  shorter \cup
             { Append(t, x) : <<t, x>> \in
                 { y \in shorter \X s :
                     /\ Len(y[1]) = n - 1
                     /\ \A k \in 1..Len(y[1]) : y[1][k] # y[2] } }

\* the tuples of at most n elements of set s
RECURSIVE Tuples(_, _)
Tuples(s, n) ==
    IF n = 0 THEN {<<>>}
    ELSE LET shorter == Tuples(s, n - 1)
         IN  shorter \cup
             { Append(y[1], y[2]) : y \in { z \in shorter \X s : Len(z[1]) = n - 1 } }

TraversalOrders(n) == { t \in Arrangements(0..(n - 1), n) : Len(t) = n }

Throw(what) == [kind |-> "throw", what |-> what]

NoCall == [kind |-> "none"]

Init ==
    /\ I \in { Z(t) : t \in Arrangements(CornerFacets, MaxSel) }
    /\ P \in { Z(t) : t \in Tuples(QueryPoints, MaxQueries) }
    /\ pc = "start"
    /\ triangles = <<>>
    /\ tree = <<>>
    /\ R = <<>>
    /\ S = <<>>
    /\ i = 0
    /\ err = ""
    /\ call = NoCall
    /\ prev = <<>>
    /\ RaycastIdle

(***************************************************************************)
(* Construction: the triangles of the selected facets and the tree.        *)
(***************************************************************************)
\* the Triangle emplaced for original facet fid; tri[k] of the source is
\* the (k+1)-th point of the tuple
TriangleOf(fid) == <<V[F[fid][0]], V[F[fid][1]], V[F[fid][2]]>>

\* a triangle loop that emplaces every triangle unexamined
DegenerateRowsUnchecked == {}

\* lines 59-62: rows of I whose triangle is degenerate
DegenerateRows == { k \in DOMAIN I : IsDegenerate(TriangleOf(I[k])) }

FirstDegenerate == CHOOSE k \in DegenerateRows : \A m \in DegenerateRows : k <= m

\* lines 46-65: the emptiness check, the triangle loop and the tree.  The
\* traversal order of the built tree is fixed by CGAL, not by the caller.
Construct ==
    /\ pc = "start"
    /\ IF Rows(F) <= 0 \/ Rows(I) <= 0
       THEN /\ pc' = "error"
            /\ err' = "Closest facet cannot be computed on empty mesh."
            /\ UNCHANGED <<triangles, tree>>
       ELSE IF DegenerateRows # {}
       THEN /\ pc' = "error"
            /\ err' = "Input facet components contains degenerated triangles"
            /\ triangles' = [k \in 0..FirstDegenerate |-> TriangleOf(I[k])]
            /\ UNCHANGED tree
       ELSE /\ pc' = "built"
            /\ triangles' = [k \in DOMAIN I |-> TriangleOf(I[k])]
            /\ tree' \in TraversalOrders(Rows(I))
            /\ UNCHANGED err
    /\ UNCHANGED <<I, P, R, S, i, call, prev, raycast>>

(***************************************************************************)
(* The tree's queries.                                                     *)
(***************************************************************************)
ScaleTriangle(k, t) == <<Scale(k, t[1]), Scale(k, t[2]), Scale(k, t[3])>>

\* tree.closest_point_and_primitive(query): the first primitive in
\* traversal order among those at the least distance, and its nearest point
ClosestPointAndPrimitive(query) ==
    With([l \in DOMAIN triangles |-> ClosestPointOnTriangle(query, triangles[l])],
         LAMBDA point :
    With({ l \in DOMAIN triangles :
             \A m \in DOMAIN triangles :
                ~FracLess(SqDist(query, point[m]), SqDist(query, point[l])) },
         LAMBDA nearest :
    With(CHOOSE k \in 1..Len(tree) :
           /\ tree[k] \in nearest
           /\ \A m \in 1..(k - 1) : tree[m] \notin nearest,
         LAMBDA at :
    [first |-> point[tree[at]], second |-> tree[at]])))

\* tree.all_intersected_primitives(Segment_3(a / k, b / k), ...): the
\* primitives met by the segment, in traversal order, as an array
AllIntersectedPrimitives(a, b, k) ==
    LET meets(l) == DoIntersect(a, b, ScaleTriangle(k, triangles[l]))
    IN  Z(SelectSeq(tree, meets))

(***************************************************************************)
(* The helpers of closest_facet.                                           *)
(***************************************************************************)
\* a side test that counts a coplanar point as positive
on_the_positive_side_lenient(fid, p) ==
    LET f == F[fid]
    IN  [kind |-> "return",
         val  |-> Orientation(V[f[0]], V[f[1]], V[f[2]], p) >= 0]

\* lines 67-85
on_the_positive_side(fid, p) ==
    LET f   == F[fid]
        ori == Orientation(V[f[0]], V[f[1]], V[f[2]], p)
    IN  IF ori = 1 THEN [kind |-> "return", val |-> TRUE]
        ELSE IF ori = -1 THEN [kind |-> "return", val |-> FALSE]
        ELSE Throw("It seems input mesh contains self intersection")

\* a lookup that takes an edge it does not find for one wound as (s, d)
get_orientation_lenient(fid, s, d) ==
    LET f == F[fid]
    IN  [kind |-> "return",
         val  |-> \/ f[0] = d /\ f[1] = s
                  \/ f[1] = d /\ f[2] = s
                  \/ f[2] = d /\ f[0] = s]

\* lines 87-100
get_orientation(fid, s, d) ==
    LET f == F[fid]
    IN  IF f[0] = s /\ f[1] = d THEN [kind |-> "return", val |-> FALSE]
        ELSE IF f[1] = s /\ f[2] = d THEN [kind |-> "return", val |-> FALSE]
        ELSE IF f[2] = s /\ f[0] = d THEN [kind |-> "return", val |-> FALSE]
        ELSE IF f[0] = d /\ f[1] = s THEN [kind |-> "return", val |-> TRUE]
        ELSE IF f[1] = d /\ f[2] = s THEN [kind |-> "return", val |-> TRUE]
        ELSE IF f[2] = d /\ f[0] = s THEN [kind |-> "return", val |-> TRUE]
        ELSE Throw("Cannot compute orientation due to incorrect connectivity")

\* lines 101-103
index_to_signed_index(index, ori) == (index + 1) * (IF ori THEN 1 ELSE -1)

\* a classification that tests the edges before the vertices
determine_element_type_edges_first(p, fid) ==
    LET tri == triangles[fid]
        equals(q)       == p.n = Scale(p.w, q)
        collinear(a, b) == Cross(Sub(b, a), Sub(p.n, Scale(p.w, a))) = <<0, 0, 0>>
    IN  IF collinear(tri[1], tri[2]) THEN [type |-> "EDGE", element_index |-> 2]
        ELSE IF collinear(tri[2], tri[3]) THEN [type |-> "EDGE", element_index |-> 0]
        ELSE IF collinear(tri[3], tri[1]) THEN [type |-> "EDGE", element_index |-> 1]
        ELSE IF equals(tri[1]) THEN [type |-> "VERTEX", element_index |-> 0]
        ELSE IF equals(tri[2]) THEN [type |-> "VERTEX", element_index |-> 1]
        ELSE IF equals(tri[3]) THEN [type |-> "VERTEX", element_index |-> 2]
        ELSE [type |-> "FACE", element_index |-> 0]

\* lines 109-125: the element of triangles[fid] the exact point p lies on
determine_element_type(p, fid) ==
    LET tri == triangles[fid]
        p0  == tri[1]
        p1  == tri[2]
        p2  == tri[3]
        equals(q)       == p.n = Scale(p.w, q)
        collinear(a, b) == Cross(Sub(b, a), Sub(p.n, Scale(p.w, a))) = <<0, 0, 0>>
    IN  IF equals(p0) THEN [type |-> "VERTEX", element_index |-> 0]
        ELSE IF equals(p1) THEN [type |-> "VERTEX", element_index |-> 1]
        ELSE IF equals(p2) THEN [type |-> "VERTEX", element_index |-> 2]
        ELSE IF collinear(p0, p1) THEN [type |-> "EDGE", element_index |-> 2]
        ELSE IF collinear(p1, p2) THEN [type |-> "EDGE", element_index |-> 0]
        ELSE IF collinear(p2, p0) THEN [type |-> "EDGE", element_index |-> 1]
        ELSE [type |-> "FACE", element_index |-> 0]

\* the array of the elements of the set of integers s, ascending
\* (iteration order of std::set<size_t>)
Ascending(s) ==
    [k \in 0..(Cardinality(s) - 1) |->
        CHOOSE x \in s : Cardinality({y \in s : y < x}) = k]

(***************************************************************************)
(* order_facets_around_edge(V, F, s, d, adj_faces, pivot, order): its      *)
(* contract.  The facets are sorted by the angle, about the axis s -> d,   *)
(* from the half-plane of the pivot to the half-plane of the facet, so     *)
(* that the first and the last entry flank the pivot.  Two facets in one   *)
(* half-plane are an input error.                                          *)
(***************************************************************************)
\* the vertex of facet fid off the edge (s, d)
OppositeVertex(fid, s, d) ==
    LET f == F[fid]
    IN  f[CHOOSE k \in 0..2 : f[k] # s /\ f[k] # d]

\* the sweep is clockwise about the axis s -> d (left-hand rule), the sense
\* in which lines 184 and 187 agree with the side test of lines 67-85.
\* 0: in the pivot's half-plane, 1: less than a half turn after it,
\* 2: opposite to it, 3: more than a half turn after it
AngleClass(s, d, pivot, x) ==
    LET e     == Sub(V[d], V[s])
        pp    == Sub(pivot, V[s])
        xx    == Sub(x, V[s])
        side  == Sign(Dot(Cross(e, pp), xx))
        front == Sign(Dot(pp, xx) * Dot(e, e) - Dot(xx, e) * Dot(pp, e))
    IN  IF side < 0 THEN 1
        ELSE IF side > 0 THEN 3
        ELSE IF front >= 0 THEN 0 ELSE 2

AngleLess(s, d, pivot, x, y) ==
    LET cx == AngleClass(s, d, pivot, x)
        cy == AngleClass(s, d, pivot, y)
    IN  \/ cx < cy
        \/ /\ cx = cy
           /\ cx \in {1, 3}
           /\ Dot(Cross(Sub(V[d], V[s]), Sub(x, V[s])), Sub(y, V[s])) < 0

order_facets_around_edge(s, d, adj_faces, pivot) ==
    LET n == Rows(adj_faces)
        opp(k) == V[OppositeVertex(Abs(adj_faces[k]) - 1, s, d)]
        before(k) == { m \in 0..(n - 1) : AngleLess(s, d, pivot, opp(m), opp(k)) }
        tie == \E k, m \in 0..(n - 1) :
                  /\ k # m
                  /\ ~AngleLess(s, d, pivot, opp(k), opp(m))
                  /\ ~AngleLess(s, d, pivot, opp(m), opp(k))
    IN  IF tie THEN Throw("order_facets_around_edge: coplanar facets")
        ELSE [kind |-> "return",
              val  |-> [r \in 0..(n - 1) |->
                          CHOOSE k \in 0..(n - 1) : Cardinality(before(k)) = r]]

(***************************************************************************)
(* The case handlers.  Each returns what it computed: kind is "return",    *)
(* "throw" (a std::runtime_error leaves closest_facet) or "assert" (an     *)
(* assert's condition is false).                                           *)
(***************************************************************************)
NoEdge == [entered |-> FALSE]

NoVertex == [entered |-> FALSE]

EdgeCall(s, d, preferred_facet, indices, signed, ordered, order) ==
    [entered |-> TRUE, s |-> s, d |-> d, preferred_facet |-> preferred_facet,
     intersected_face_indices |-> indices,
     intersected_face_signed_indices |-> signed,
     ordered |-> ordered, order |-> order]

Outcome(kind, what, fid, orientation, edge) ==
    [kind |-> kind, what |-> what, fid |-> fid, orientation |-> orientation,
     edge |-> edge, vertex |-> NoVertex]

\* a choice that falls back on the last entry
PreferredEntryDefaultLast(intersected_face_indices, order, preferred_facet) ==
    IF intersected_face_indices[order[0]] = preferred_facet THEN "first"
    ELSE "last"

\* lines 183-192: which entry of the angular order is returned
PreferredEntry(intersected_face_indices, order, preferred_facet) ==
    IF intersected_face_indices[order[0]] = preferred_facet THEN "first"
    ELSE IF intersected_face_indices[order[Rows(order) - 1]] = preferred_facet
    THEN "last"
    ELSE "default"

\* one sign convention for the first and the last entry
EntryOrientationOneSign(entry, intersected_face_signed_indices, order) ==
    IF entry = "last"
    THEN intersected_face_signed_indices[order[Rows(order) - 1]] < 0
    ELSE intersected_face_signed_indices[order[0]] < 0

\* lines 184, 187, 190: the orientation read off the sign of that entry
EntryOrientation(entry, intersected_face_signed_indices, order) ==
    IF entry = "last"
    THEN intersected_face_signed_indices[order[Rows(order) - 1]] > 0
    ELSE intersected_face_signed_indices[order[0]] < 0

\* lines 163-192: the choice among the intersected facets, given the
\* record of the call so far (its ordered and order fields still unset)
ChooseFacet(query_point, edge) ==
    LET intersected_face_indices == edge.intersected_face_indices
        intersected_face_signed_indices == edge.intersected_face_signed_indices
        num_intersected_faces == Rows(edge.intersected_face_indices)
    IN  IF ~(num_intersected_faces >= 1)
        THEN Outcome("assert", "num_intersected_faces >= 1", 0, FALSE, edge)
        ELSE IF num_intersected_faces = 1
        THEN With(on_the_positive_side(intersected_face_indices[0], query_point),
                  LAMBDA side :
                  IF side.kind = "throw"
                  THEN Outcome("throw", side.what, 0, FALSE, edge)
                  ELSE Outcome("return", "", intersected_face_indices[0],
                               side.val, edge))
        ELSE With(order_facets_around_edge(edge.s, edge.d,
                      intersected_face_signed_indices, query_point),
                  LAMBDA ordering :
             IF ordering.kind = "throw"
             THEN Outcome("throw", ordering.what, 0, FALSE,
                          [edge EXCEPT !.ordered = TRUE])
             ELSE With(PreferredEntry(intersected_face_indices, ordering.val,
                                      edge.preferred_facet),
                       LAMBDA entry :
                  Outcome("return", "",
                          intersected_face_indices[
                              IF entry = "last"
                              THEN ordering.val[num_intersected_faces - 1]
                              ELSE ordering.val[0]],
                          EntryOrientation(entry, intersected_face_signed_indices,
                                           ordering.val),
                          [edge EXCEPT !.ordered = TRUE, !.order = ordering.val])))

\* the primitives found, left as positions in the triangle list
LocalIds(intersected_faces) == intersected_faces

\* lines 149-153, 212-216: the primitives found, as original facet ids
OriginalIds(intersected_faces) ==
    [k \in DOMAIN intersected_faces |-> I[intersected_faces[k]]]

\* lines 127-193
process_edge_case(query_idx, s, d, preferred_facet) ==
    \* the segment from the midpoint is tested at scale 2: its ends are
    \* V[s] + V[d] and twice the query point
    With(AllIntersectedPrimitives(Add(V[s], V[d]), Scale(2, P[query_idx]), 2),
         LAMBDA intersected_faces :
    With(OriginalIds(intersected_faces), LAMBDA intersected_face_indices :
    With([k \in DOMAIN intersected_faces |->
             get_orientation(intersected_face_indices[k], s, d)],
         LAMBDA oriented :
    IF \E k \in DOMAIN intersected_faces : oriented[k].kind = "throw"
    THEN Outcome("throw",
                 "Cannot compute orientation due to incorrect connectivity",
                 0, FALSE,
                 EdgeCall(s, d, preferred_facet, intersected_face_indices,
                          <<>>, FALSE, <<>>))
    ELSE ChooseFacet(P[query_idx],
             EdgeCall(s, d, preferred_facet, intersected_face_indices,
                      [k \in DOMAIN intersected_faces |->
                          index_to_signed_index(intersected_face_indices[k],
                                                oriented[k].val)],
                      FALSE, <<>>)))))

\* lines 195-199
process_face_case(query_idx, fid) ==
    process_edge_case(query_idx, F[I[fid]][0], F[I[fid]][1], I[fid])

\* lines 237-260: separator is a plane all adj_points lie on or to one
\* side of, the query point strictly on the free side
is_on_exterior(separator, adj_points, query_point) ==
    \/ /\ Cardinality({k \in DOMAIN adj_points :
                          OrientedSide(separator, adj_points[k]) = 1}) = 0
       /\ OrientedSide(separator, query_point) = 1
    \/ /\ Cardinality({k \in DOMAIN adj_points :
                          OrientedSide(separator, adj_points[k]) = -1}) = 0
       /\ OrientedSide(separator, query_point) = -1

\* lines 265-277: how the inner loop of row a ends: "throw" at a degenerate
\* separator, "found" or "assert" at the first exterior one (d = vi, and
\* the assert of line 273), "none" when j runs out
Row(a, closest_point, adj_points, query_point) ==
    With({ b \in (a + 1)..(Rows(adj_points) - 1) :
             \/ PlaneIsDegenerate(<<closest_point, adj_points[a], adj_points[b]>>)
             \/ is_on_exterior(<<closest_point, adj_points[a], adj_points[b]>>,
                               adj_points, query_point) },
         LAMBDA stops :
    IF stops = {} THEN "none"
    ELSE With(CHOOSE b \in stops : \A c \in stops : b <= c, LAMBDA b :
         IF PlaneIsDegenerate(<<closest_point, adj_points[a], adj_points[b]>>)
         THEN "throw"
         ELSE IF Collinear(query_point, adj_points[a], closest_point)
         THEN "assert"
         ELSE "found"))

\* lines 262-279: the outer loop over the rows, in order, up to the first
\* row that throws or fails its assert; d is the vi of the last row found
SearchSeparator(closest_point, adj_vertices, adj_points, query_point) ==
    With([a \in DOMAIN adj_points |->
             Row(a, closest_point, adj_points, query_point)],
         LAMBDA row :
    With({ a \in DOMAIN row : row[a] \in {"throw", "assert"} }, LAMBDA ends :
    IF ends # {}
    THEN [kind |-> row[CHOOSE a \in ends : \A c \in ends : a <= c],
          d |-> SIZE_MAX, separated |-> {}]
    ELSE With({ a \in DOMAIN row : row[a] = "found" }, LAMBDA hits :
         [kind |-> "end",
          d |-> IF hits = {} THEN SIZE_MAX
                ELSE adj_vertices[CHOOSE a \in hits : \A c \in hits : c <= a],
          separated |-> { adj_vertices[a] : a \in hits }])))

\* lines 201-282
process_vertex_case(query_idx, s, preferred_facet) ==
    With(AllIntersectedPrimitives(V[s], P[query_idx], 1),
         LAMBDA intersected_faces :
    With(OriginalIds(intersected_faces), LAMBDA intersected_face_indices :
    With(Ascending({ F[intersected_face_indices[k]][m] :
                       <<k, m>> \in (DOMAIN intersected_faces) \X (0..2) } \ {s}),
         LAMBDA adj_vertices :
    With([k \in DOMAIN adj_vertices |-> V[adj_vertices[k]]], LAMBDA adj_points :
    With(SearchSeparator(V[s], adj_vertices, adj_points, P[query_idx]),
         LAMBDA search :
    With([entered |-> TRUE, s |-> s, adj_vertices |-> adj_vertices,
          separated |-> search.separated],
         LAMBDA vertex :
    IF search.kind = "throw"
    THEN [Outcome("throw", "Input mesh contains degenerated faces", 0, FALSE,
                  NoEdge) EXCEPT !.vertex = vertex]
    ELSE IF search.kind = "assert"
    THEN [Outcome("assert",
                  "!CGAL::collinear(query_point, adj_points[i], closest_point)",
                  0, FALSE, NoEdge) EXCEPT !.vertex = vertex]
    ELSE IF ~(search.d # SIZE_MAX)
    THEN [Outcome("assert", "d != std::numeric_limits<size_t>::max()", 0, FALSE,
                  EdgeCall(s, search.d, preferred_facet, <<>>, <<>>, FALSE, <<>>))
             EXCEPT !.vertex = vertex]
    ELSE [process_edge_case(query_idx, s, search.d, preferred_facet)
             EXCEPT !.vertex = vertex]))))))

\* lines 288-332: one iteration of the query loop, up to the two stores
Resolve(query_idx) ==
    With(ClosestPointAndPrimitive(P[query_idx]), LAMBDA projection :
    With(determine_element_type(projection.first, projection.second),
         LAMBDA element :
    LET fid == projection.second
        element_index == element.element_index
        f == F[I[projection.second]]
    IN  With(IF element.type = "VERTEX"
             THEN process_vertex_case(query_idx, f[element_index], I[fid])
             ELSE IF element.type = "EDGE"
             THEN process_edge_case(query_idx, f[(element_index + 1) % 3],
                                    f[(element_index + 2) % 3], I[fid])
             ELSE process_face_case(query_idx, fid),
             LAMBDA outcome :
        [kind |-> outcome.kind, what |-> outcome.what, fid |-> outcome.fid,
         orientation |-> outcome.orientation, edge |-> outcome.edge,
         vertex |-> outcome.vertex, query_idx |-> query_idx,
         closest_point |-> projection.first, primitive |-> fid,
         element_type |-> element.type, element_index |-> element_index])))

(***************************************************************************)
(* The query pass.                                                         *)
(***************************************************************************)
\* lines 284-286: R and S get one row per query; Eigen leaves the new
\* coefficients unassigned
Resize ==
    /\ pc = "built"
    /\ R' = [k \in DOMAIN P |-> <<>>]
    /\ S' = [k \in DOMAIN P |-> <<>>]
    /\ i' = 0
    /\ pc' = IF 0 < Rows(P) THEN "loop" ELSE "done"
    /\ UNCHANGED <<I, P, triangles, tree, err, call, prev, raycast>>

\* a store that always lands in the first row
StoreFirstRow(X, k, v) == [X EXCEPT ![0] = <<v>>]

\* lines 335-336: the store into row k of an output column
Store(X, k, v) == [X EXCEPT ![k] = <<v>>]

\* lines 287-337: one iteration.  An exception leaves closest_facet.  A
\* false assert aborts the process where asserts are compiled in; with
\* NDEBUG the iteration goes on into undefined behaviour (line 281 reads V
\* at row SIZE_MAX, line 181 reads an empty order, line 175 passes a pivot
\* on the line of the edge).
Query ==
    /\ pc = "loop"
    /\ i < Rows(P)
    /\ \E o \in {Resolve(i)} :
           IF o.kind = "return"
           THEN /\ R' = Store(R, i, o.fid)
                /\ S' = Store(S, i, o.orientation)
                /\ i' = i + 1
                /\ pc' = IF i + 1 < Rows(P) THEN "loop" ELSE "done"
                /\ call' = o
                /\ UNCHANGED err
           ELSE IF o.kind = "throw"
           THEN /\ pc' = "error"
                /\ err' = o.what
                /\ call' = o
                /\ UNCHANGED <<R, S, i>>
           ELSE /\ pc' \in {"aborted", "undefined"}
                /\ call' = IF pc' = "aborted" THEN [o EXCEPT !.edge = NoEdge] ELSE o
                /\ UNCHANGED <<R, S, i, err>>
    /\ UNCHANGED <<I, P, triangles, tree, prev, raycast>>

Next == Construct \/ Resize \/ Query

Spec == Init /\ [][Next]_vars

(***************************************************************************)
(* A caller that, after a completed pass, calls closest_facet once more    *)
(* with the rows of its facet subset permuted and fresh output columns.    *)
(***************************************************************************)
CallAgain ==
    /\ pc = "done"
    /\ prev = <<>>
    /\ prev' = [R |-> R, S |-> S]
    /\ I' \in { Z(t) : t \in { [k \in 1..Rows(I) |-> I[o[k]]] :
                                 o \in TraversalOrders(Rows(I)) } } \ {I}
    /\ pc' = "start"
    /\ triangles' = <<>>
    /\ tree' = <<>>
    /\ R' = <<>>
    /\ S' = <<>>
    /\ i' = 0
    /\ call' = NoCall
    /\ UNCHANGED <<P, err, raycast>>

\* closest_facet called on a subset that selects the T-junction facet
InitJunction ==
    /\ I \in { Z(t) : t \in { u \in Arrangements(DOMAIN F, MaxSel) :
                                 \E k \in 1..Len(u) : u[k] \notin CornerFacets } }
    /\ P \in { Z(t) : t \in Tuples(QueryPoints, MaxJunctionQueries) }
    /\ pc = "start"
    /\ triangles = <<>>
    /\ tree = <<>>
    /\ R = <<>>
    /\ S = <<>>
    /\ i = 0
    /\ err = ""
    /\ call = NoCall
    /\ prev = <<>>
    /\ RaycastIdle

SpecJunction == InitJunction /\ [][Next]_vars

NextPermuted == Construct \/ Resize \/ Query \/ CallAgain

SpecPermuted == Init /\ [][NextPermuted]_vars

(***************************************************************************)
(* reorient_facets_raycast, lines 150-213: the rays are shot by the        *)
(* iterations of an OpenMP parallel for, which may run in any order and    *)
(* interleave between their statements; each "#pragma omp atomic" update   *)
(* is one step.  The patches (C, from bfs_orient) and what the rays hit    *)
(* (ei.intersectRay) are inputs.                                           *)
(***************************************************************************)
\* the significand of a float has 24 bits
MantissaBits == 24

\* the spacing of the floats about the integer x >= 0
RECURSIVE Ulp(_)
Ulp(x) == IF x < 2^MantissaBits THEN 1 ELSE 2 * Ulp(x \div 2)

\* the float nearest to the integer x >= 0, ties to the even significand
FloatRound(x) ==
    LET u == Ulp(x)
        q == x \div u
        r == x % u
    IN  IF 2 * r < u THEN q * u
        ELSE IF 2 * r > u THEN (q + 1) * u
        ELSE IF q % 2 = 0 THEN q * u
        ELSE (q + 1) * u

\* lines 187, 196: float += float
FloatAdd(x, v) == FloatRound(x + v)

\* an update that overwrites what other threads added since it read x = 0
RacyAdd(x, v) == v

\* lines 175-178, 183-184, 192-193: an atomic update of an int counter
AtomicAdd(x, v) == x + v

\* line 44: the patch of each facet; facets 0 and 1 form patch 0
C == Z(<<0, 0, 1>>)

\* line 48
num_cc == 1 + (CHOOSE c \in { C[f] : f \in DOMAIN C } :
                 \A f \in DOMAIN C : C[f] <= c)

Hit(id, t) == [id |-> id, t |-> t]

Ray(f, front, back) == [face |-> f, front |-> front, back |-> back]

\* the rays the ray list is drawn from: the facet a ray starts on and the
\* hits, nearest first, that ei.intersectRay reports along d and along -d
RayPool ==
    { Ray(0, << Hit(2, 2^MantissaBits) >>, << Hit(1, 2^MantissaBits - 2) >>),
      Ray(0, << Hit(0, 0), Hit(2, 1) >>, << Hit(1, 2) >>),
      Ray(1, << Hit(2, 1) >>, << Hit(0, 2) >>),
      Ray(1, << >>, << Hit(1, 0), Hit(0, 3) >>),
      Ray(2, << >>, << Hit(0, 3), Hit(1, 5) >>) }

NoVotes == [c \in 0..(num_cc - 1) |-> [first |-> 0, second |-> 0]]

\* reorient_facets_raycast at line 156, the rays generated
InitRaycast ==
    /\ I = <<>>
    /\ P = <<>>
    /\ pc = "idle"
    /\ triangles = <<>>
    /\ tree = <<>>
    /\ R = <<>>
    /\ S = <<>>
    /\ i = 0
    /\ err = ""
    /\ call = NoCall
    /\ prev = <<>>
    /\ use_parity \in BOOLEAN
    /\ rays \in { Z(t) : t \in Tuples(RayPool, MaxRays) }
    /\ stage = [k \in DOMAIN rays |-> "front"]
    /\ C_vote_distance = NoVotes
    /\ C_vote_infinity = NoVotes
    /\ C_vote_parity = NoVotes
    /\ flip = <<>>
    /\ rpc = "shooting"

\* lines 171-172: the first hit is dropped when it is the ray's own facet
WithoutOwnFacet(hits, f) ==
    IF hits # <<>> /\ hits[1].id = f THEN Tail(hits) ELSE hits

\* lines 159-162
PatchOfRay(k) == C[rays[k].face]

closest == <<I, P, pc, triangles, tree, R, S, i, err, call, prev>>

\* lines 174-188 for ray k: the vote of the front side
VoteFront(k) ==
    /\ rpc = "shooting"
    /\ stage[k] = "front"
    /\ LET c == PatchOfRay(k)
           hits_front == WithoutOwnFacet(rays[k].front, rays[k].face)
       IN  IF use_parity
           THEN /\ C_vote_parity' =
                     [C_vote_parity EXCEPT
                        ![c].first = AtomicAdd(@, Len(hits_front) % 2)]
                /\ UNCHANGED <<C_vote_infinity, C_vote_distance>>
           ELSE IF hits_front = <<>>
           THEN /\ C_vote_infinity' =
                     [C_vote_infinity EXCEPT ![c].first = AtomicAdd(@, 1)]
                /\ UNCHANGED <<C_vote_parity, C_vote_distance>>
           ELSE /\ C_vote_distance' =
                     [C_vote_distance EXCEPT
                        ![c].first = FloatAdd(@, hits_front[1].t)]
                /\ UNCHANGED <<C_vote_parity, C_vote_infinity>>
    /\ stage' = [stage EXCEPT ![k] = "back"]
    /\ UNCHANGED <<closest, use_parity, rays, flip, rpc>>

\* lines 177-178, 190-197 for ray k: the vote of the back side
VoteBack(k) ==
    /\ rpc = "shooting"
    /\ stage[k] = "back"
    /\ LET c == PatchOfRay(k)
           hits_back == WithoutOwnFacet(rays[k].back, rays[k].face)
       IN  IF use_parity
           THEN /\ C_vote_parity' =
                     [C_vote_parity EXCEPT
                        ![c].second = AtomicAdd(@, Len(hits_back) % 2)]
                /\ UNCHANGED <<C_vote_infinity, C_vote_distance>>
           ELSE IF hits_back = <<>>
           THEN /\ C_vote_infinity' =
                     [C_vote_infinity EXCEPT ![c].second = AtomicAdd(@, 1)]
                /\ UNCHANGED <<C_vote_parity, C_vote_distance>>
           ELSE /\ C_vote_distance' =
                     [C_vote_distance EXCEPT
                        ![c].second = FloatAdd(@, hits_back[1].t)]
                /\ UNCHANGED <<C_vote_parity, C_vote_infinity>>
    /\ stage' = [stage EXCEPT ![k] = "done"]
    /\ UNCHANGED <<closest, use_parity, rays, flip, rpc>>

\* lines 201-213, after the barrier that ends the parallel loop
Decide ==
    /\ rpc = "shooting"
    /\ \A k \in DOMAIN rays : stage[k] = "done"
    /\ flip' =
          [f \in DOMAIN C |->
             IF use_parity
             THEN IF C_vote_parity[C[f]].first > C_vote_parity[C[f]].second
                  THEN 1 ELSE 0
             ELSE IF \/ /\ C_vote_infinity[C[f]].first
                             = C_vote_infinity[C[f]].second
                        /\ C_vote_distance[C[f]].first
                             < C_vote_distance[C[f]].second
                     \/ C_vote_infinity[C[f]].first
                          < C_vote_infinity[C[f]].second
                  THEN 1 ELSE 0]
    /\ rpc' = "decided"
    /\ UNCHANGED <<closest, use_parity, rays, stage, C_vote_distance,
                   C_vote_infinity, C_vote_parity>>

NextRaycast ==
    \/ \E k \in DOMAIN rays : VoteFront(k)
    \/ \E k \in DOMAIN rays : VoteBack(k)
    \/ Decide

SpecRaycast == InitRaycast /\ [][NextRaycast]_vars

(***************************************************************************)
(* Properties.                                                             *)
(***************************************************************************)
DegenerateMessage == "Input facet components contains degenerated triangles"

CoplanarMessage == "It seems input mesh contains self intersection"

\* the pass has not got beyond construction: no tree, no output rows, no query
NotPastConstruction ==
    /\ pc \in {"start", "error"}
    /\ tree = <<>>
    /\ R = <<>>
    /\ S = <<>>
    /\ call = NoCall

\* C1 as stated: whenever the mesh contains a degenerate triangle, the
\* operation fails at construction, before the tree is queried and before any
\* output row exists.
C1_MeshDegenerateFails ==
    (\E fid \in DOMAIN F : IsDegenerate(TriangleOf(fid))) => NotPastConstruction

\* C1 amended: whenever a facet selected by I is degenerate, the operation
\* fails at construction with the degenerate-triangle error, before the tree
\* is built or queried and before any output row exists.
C1_SelectedDegenerateFails ==
    (\E k \in DOMAIN I : IsDegenerate(TriangleOf(I[k]))) =>
        /\ NotPastConstruction
        /\ pc = "error" => err = DegenerateMessage

\* a pass stopped at construction by a degenerate facet that follows a
\* sound one, with queries waiting
C1_Witness ==
    /\ pc = "error"
    /\ err = DegenerateMessage
    /\ Rows(I) >= 2
    /\ ~IsDegenerate(TriangleOf(I[0]))
    /\ Rows(P) >= 1
    /\ R = <<>>

\* row k of the output columns has been assigned
Written(k) == k \in DOMAIN R /\ R[k] # <<>> /\ S[k] # <<>>

\* C2: when resolving a query raises a fatal error the pass stops there and
\* R and S carry no entry written for the queries resolved before it.
C2_FatalLeavesNoEntries ==
    (pc = "error" /\ call.kind = "throw") =>
        /\ call.query_idx = i
        /\ \A k \in DOMAIN R : R[k] = <<>> /\ S[k] = <<>>

\* the side of the plane of original facet fid the point x lies on
PlaneSide(fid, x) == Orientation(V[F[fid][0]], V[F[fid][1]], V[F[fid][2]], x)

\* the last iteration ran the edge case and its segment query found
\* exactly one facet, whose connectivity with the edge was established
SingleFacetEdgeCase ==
    /\ call.kind # "none"
    /\ call.edge.entered
    /\ Rows(call.edge.intersected_face_indices) = 1
    /\ Rows(call.edge.intersected_face_signed_indices) = 1

\* C3: when the segment query of the edge case returns exactly one facet,
\* order_facets_around_edge is not invoked, and the query resolves to that
\* facet with orientation true if the query point is strictly on the positive
\* side of its plane, false if strictly on the negative side, and raises the
\* fatal error if the point is coplanar.
C3_SingleFacetUsesPlaneSide ==
    SingleFacetEdgeCase =>
        LET fid  == call.edge.intersected_face_indices[0]
            q    == call.query_idx
            side == PlaneSide(fid, P[q])
        IN  /\ ~call.edge.ordered
            /\ side = 1  => Written(q) /\ R[q] = <<fid>> /\ S[q] = <<TRUE>>
            /\ side = -1 => Written(q) /\ R[q] = <<fid>> /\ S[q] = <<FALSE>>
            /\ side = 0  => /\ pc = "error"
                            /\ err = CoplanarMessage
                            /\ ~Written(q)

\* a query resolved through a single intersected facet on its positive side
C3_Witness ==
    /\ SingleFacetEdgeCase
    /\ Written(call.query_idx)
    /\ S[call.query_idx] = <<TRUE>>
    /\ PlaneSide(R[call.query_idx][1], P[call.query_idx]) = 1
    /\ call.element_type = "EDGE"

\* C4: permuting the rows of I changes neither the facet id nor the
\* orientation returned for a query point, whichever facet the tree reports
\* as the owner of a nearest point shared by several selected facets.
C4_PermutationInvariant ==
    (prev # <<>> /\ pc = "done") => R = prev.R /\ S = prev.S

\* the pass has resized the output columns
Resized ==
    \/ pc \in {"loop", "done", "aborted", "undefined"}
    \/ pc = "error" /\ call # NoCall

C6_OriginalSelectedId ==
    \A k \in DOMAIN R :
        R[k] # <<>> => R[k][1] \in { I[l] : l \in DOMAIN I }

\* a vertex-case query answered with an original id that is no position
\* of the triangle list
C6_Witness ==
    /\ call.kind = "return"
    /\ call.element_type = "VERTEX"
    /\ Written(call.query_idx)
    /\ R[call.query_idx][1] \notin DOMAIN I
    /\ R[call.query_idx][1] \in { I[l] : l \in DOMAIN I }

\* the last iteration ordered two or more facets and returned one of them
MultiFacetReturn ==
    /\ call.kind = "return"
    /\ call.edge.entered
    /\ call.edge.ordered
    /\ Written(call.query_idx)

\* the entry of the intersected facets whose id the last iteration returned
ChosenEntry ==
    CHOOSE c \in DOMAIN call.edge.intersected_face_indices :
        call.edge.intersected_face_indices[c] = R[call.query_idx][1]

FirstEntry == call.edge.order[0]

LastEntry == call.edge.order[Rows(call.edge.order) - 1]

\* C7 as stated: in the multi-facet edge case the orientation returned is
\* true exactly when the signed reference of the chosen entry is negative,
\* be the chosen entry the first or the last of the angular order.
C7_NegativeMeansTrue ==
    MultiFacetReturn =>
        (S[call.query_idx][1] <=>
            call.edge.intersected_face_signed_indices[ChosenEntry] < 0)

\* C7 amended: in the multi-facet edge case the orientation returned is
\* read off the sign of the chosen entry's signed reference by a convention
\* that depends on the entry: for the first entry of the angular order it is
\* true exactly when the reference is negative, for the last entry it is
\* true exactly when the reference is positive.
C7_SignByEntry ==
    MultiFacetReturn =>
        LET signed == call.edge.intersected_face_signed_indices[ChosenEntry]
            value  == S[call.query_idx][1]
        IN  /\ ChosenEntry \in {FirstEntry, LastEntry}
            /\ ChosenEntry = FirstEntry => (value <=> signed < 0)
            /\ ChosenEntry = LastEntry  => (value <=> signed > 0)

\* the last entry, not the first, was returned: its reference is negative
\* and the orientation false
C7_Witness ==
    /\ MultiFacetReturn
    /\ ChosenEntry = LastEntry
    /\ ChosenEntry # FirstEntry
    /\ call.edge.intersected_face_signed_indices[ChosenEntry] < 0
    /\ S[call.query_idx] = <<FALSE>>

\* C8: in the multi-facet edge case the facet returned is the first entry
\* of the angular order if that is preferred_facet, else the last entry if
\* that is preferred_facet, else the first entry; so preferred_facet is
\* returned whenever it is the first or the last entry.
C8_FlankingChoice ==
    MultiFacetReturn =>
        LET first == call.edge.intersected_face_indices[FirstEntry]
            last  == call.edge.intersected_face_indices[LastEntry]
            preferred_facet == call.edge.preferred_facet
            returned == R[call.query_idx][1]
        IN  /\ Rows(call.edge.order) >= 2
            /\ returned = IF first = preferred_facet THEN first
                          ELSE IF last = preferred_facet THEN last
                          ELSE first
            /\ preferred_facet \in {first, last} => returned = preferred_facet

\* three facets about the edge, preferred_facet between the two flanking
\* ones, the first entry returned
C8_Witness ==
    /\ MultiFacetReturn
    /\ call.edge.preferred_facet \notin
           { call.edge.intersected_face_indices[FirstEntry],
             call.edge.intersected_face_indices[LastEntry] }
    /\ R[call.query_idx][1] = call.edge.intersected_face_indices[FirstEntry]

\* C9: in the vertex case, if no pair of adjacent vertices yields a
\* separating plane the query fails with a fatal error, and the edge case is
\* entered only with a d that is one of the adjacent vertices for which such
\* a plane exists.
C9_VertexCaseNeedsSeparator ==
    (call.kind # "none" /\ call.vertex.entered) =>
        /\ call.vertex.separated = {} =>
              /\ pc \in {"error", "aborted"}
              /\ ~call.edge.entered
        /\ call.edge.entered =>
              /\ call.edge.d \in call.vertex.separated
              /\ call.edge.d # call.vertex.s
              /\ \E k \in DOMAIN call.vertex.adj_vertices :
                    call.vertex.adj_vertices[k] = call.edge.d

\* what lines 109-125 and 309-332 are to make of the nearest point: the
\* element type, and the vertices s and d handed on (d only off a vertex)
ExpectedElement ==
    LET p  == call.closest_point
        f  == F[I[call.primitive]]
        at(k)      == p.n = Scale(p.w, V[f[k]])
        along(k, m) == Cross(Sub(V[f[m]], V[f[k]]),
                             Sub(p.n, Scale(p.w, V[f[k]]))) = <<0, 0, 0>>
    IN  IF at(0) THEN <<"VERTEX", f[0]>>
        ELSE IF at(1) THEN <<"VERTEX", f[1]>>
        ELSE IF at(2) THEN <<"VERTEX", f[2]>>
        ELSE IF along(0, 1) THEN <<"EDGE", f[0], f[1]>>
        ELSE IF along(1, 2) THEN <<"EDGE", f[1], f[2]>>
        ELSE IF along(2, 0) THEN <<"EDGE", f[2], f[0]>>
        ELSE <<"FACE", f[0], f[1]>>

\* C10: the nearest point is classified against its owning triangle in the
\* order p0, p1, p2, then (p0,p1), (p1,p2), (p2,p0), then FACE; a vertex
\* gives s = f0, f1 or f2, an edge (s,d) = (f0,f1), (f1,f2) or (f2,f0), and
\* the preferred facet handed on is the owning facet's original id.
C10_ClassificationPriority ==
    call.kind # "none" =>
        /\ call.element_type = ExpectedElement[1]
        /\ call.element_type = "VERTEX" =>
              /\ call.vertex.entered
              /\ call.vertex.s = ExpectedElement[2]
              /\ call.edge.entered => call.edge.s = ExpectedElement[2]
        /\ call.element_type # "VERTEX" =>
              /\ ~call.vertex.entered
              /\ call.edge.entered
              /\ call.edge.s = ExpectedElement[2]
              /\ call.edge.d = ExpectedElement[3]
        /\ call.edge.entered => call.edge.preferred_facet = I[call.primitive]

\* a nearest point at the third vertex of its owning triangle, handed to
\* the edge case with the owner preferred
C10_Witness ==
    /\ call.kind = "return"
    /\ call.element_type = "VERTEX"
    /\ call.vertex.s = F[I[call.primitive]][2]
    /\ call.edge.entered
    /\ call.edge.preferred_facet = I[call.primitive]
    /\ I[call.primitive] # call.primitive

ConnectivityMessage == "Cannot compute orientation due to incorrect connectivity"

\* the winding of original facet fid contains the directed edge (a, b)
Winds(fid, a, b) ==
    \E k \in 0..2 : F[fid][k] = a /\ F[fid][(k + 1) % 3] = b

\* C11: in the edge case for edge (s,d) each facet the segment query returns
\* gets a signed reference of magnitude (original id + 1), negative when its
\* winding contains (s,d), positive when it contains (d,s); if a returned
\* facet contains the edge in neither direction the query fails with the
\* inconsistent-connectivity error, before order_facets_around_edge is
\* invoked and before a row is written for that query.
C11_SignedReferences ==
    (call.kind # "none" /\ call.edge.entered /\ call.edge.d # SIZE_MAX) =>
        LET s == call.edge.s
            d == call.edge.d
            indices == call.edge.intersected_face_indices
            signed  == call.edge.intersected_face_signed_indices
        IN  IF \A k \in DOMAIN indices :
                   Winds(indices[k], s, d) \/ Winds(indices[k], d, s)
            THEN /\ DOMAIN signed = DOMAIN indices
                 /\ \A k \in DOMAIN indices :
                       /\ signed[k] # 0
                       /\ signed[k] \in {indices[k] + 1, -(indices[k] + 1)}
                       /\ Winds(indices[k], s, d) => signed[k] < 0
                       /\ Winds(indices[k], d, s) => signed[k] > 0
            ELSE /\ pc = "error"
                 /\ err = ConnectivityMessage
                 /\ call.kind = "throw"
                 /\ ~call.edge.ordered
                 /\ ~Written(call.query_idx)

\* the segment query returned a facet wound along the edge, facet 0 with
\* reference -1, and the T-junction facet, which does not contain the edge
C11_Witness ==
    /\ pc = "error"
    /\ err = ConnectivityMessage
    /\ call.edge.entered
    /\ \E k \in DOMAIN call.edge.intersected_face_indices :
          /\ call.edge.intersected_face_indices[k] = 0
          /\ Winds(0, call.edge.s, call.edge.d)
    /\ \E k \in DOMAIN call.edge.intersected_face_indices :
          LET fid == call.edge.intersected_face_indices[k]
          IN  ~Winds(fid, call.edge.s, call.edge.d)
              /\ ~Winds(fid, call.edge.d, call.edge.s)
    /\ ~Written(call.query_idx)

(***************************************************************************)
(* reorient_facets_raycast: the votes.                                     *)
(***************************************************************************)
Sides == {"front", "back"}

\* ray k has cast its vote of this side
Voted(k, side) ==
    IF side = "front" THEN stage[k] # "front" ELSE stage[k] = "done"

\* the hits of ray k on this side that count: its own facet, hit first, is
\* not one of them
CountedHits(k, side) ==
    LET hits == IF side = "front" THEN rays[k].front ELSE rays[k].back
    IN  IF hits # <<>> /\ hits[1].id = rays[k].face
        THEN SubSeq(hits, 2, Len(hits)) ELSE hits

\* the rays that start on patch c
RaysOf(c) == { k \in DOMAIN rays : C[rays[k].face] = c }

\* the rays of patch c whose vote of this side is a distance
DistanceVoters(c, side) ==
    { k \in RaysOf(c) : ~use_parity /\ CountedHits(k, side) # <<>> }

Side(pair, side) == IF side = "front" THEN pair.first ELSE pair.second

\* the float sums of the distances of the rays ks, added to acc one by one
\* in every order
RECURSIVE FloatSums(_, _, _)
FloatSums(acc, ks, side) ==
    IF ks = {} THEN {acc}
    ELSE UNION { FloatSums(FloatRound(acc + CountedHits(k, side)[1].t),
                           ks \ {k}, side) : k \in ks }

\* the float sum of the distances of the first n rays on patch c, added in
\* the order of the ray list: what one thread computes
RECURSIVE SequentialSum(_, _, _)
SequentialSum(c, side, n) ==
    IF n = 0 THEN 0
    ELSE IF (n - 1) \in DistanceVoters(c, side)
         THEN FloatRound(SequentialSum(c, side, n - 1)
                           + CountedHits(n - 1, side)[1].t)
         ELSE SequentialSum(c, side, n - 1)

ParityCount(c, side, ks) ==
    Cardinality({ k \in ks \cap RaysOf(c) :
                    use_parity /\ Len(CountedHits(k, side)) % 2 = 1 })

InfinityCount(c, side, ks) ==
    Cardinality({ k \in ks \cap RaysOf(c) :
                    ~use_parity /\ CountedHits(k, side) = <<>> })

\* lines 203-213 applied to given counters of one patch
Flag(parity, infinity, distance) ==
    IF use_parity
    THEN IF parity.first > parity.second THEN 1 ELSE 0
    ELSE IF \/ infinity.first = infinity.second
               /\ distance.first < distance.second
            \/ infinity.first < infinity.second
         THEN 1 ELSE 0

\* the flag of patch c when one thread shoots the rays in list order
SequentialFlag(c) ==
    Flag([first  |-> ParityCount(c, "front", DOMAIN rays),
          second |-> ParityCount(c, "back", DOMAIN rays)],
         [first  |-> InfinityCount(c, "front", DOMAIN rays),
          second |-> InfinityCount(c, "back", DOMAIN rays)],
         [first  |-> SequentialSum(c, "front", Rows(rays)),
          second |-> SequentialSum(c, "back", Rows(rays))])

\* C12 (as stated): every ray votes exactly once for its own patch and no
\* update is lost, so that when the loop has ended the parity counts, the
\* reached-infinity counts, the distance sums and the flags I(f) are those
\* of the run of a single thread, whatever the schedule was.
C12_ScheduleIndependent ==
    rpc = "decided" =>
        /\ \A c \in DOMAIN C_vote_parity : \A side \in Sides :
             /\ Side(C_vote_parity[c], side)
                  = ParityCount(c, side, DOMAIN rays)
             /\ Side(C_vote_infinity[c], side)
                  = InfinityCount(c, side, DOMAIN rays)
             /\ Side(C_vote_distance[c], side)
                  = SequentialSum(c, side, Rows(rays))
        /\ \A f \in DOMAIN C : flip[f] = SequentialFlag(C[f])

\* C12 (amended): at every moment of the loop the integer counters of a
\* patch count exactly the votes cast so far by the rays of that patch, so
\* their final values do not depend on the schedule; a distance sum is the
\* float sum of the distances voted so far by the rays of the patch, added
\* in the order the schedule chose.  The flags are decided from the final
\* counters, are the same for all facets of a patch, and are those of a
\* single thread in parity mode and wherever the reached-infinity counts of
\* the patch differ.
C12_VotesCountedOnce ==
    /\ rpc # "idle" =>
         \A c \in DOMAIN C_vote_parity : \A side \in Sides :
           LET cast == { k \in DOMAIN rays : Voted(k, side) }
           IN  /\ Side(C_vote_parity[c], side) = ParityCount(c, side, cast)
               /\ Side(C_vote_infinity[c], side)
                    = InfinityCount(c, side, cast)
               /\ Side(C_vote_distance[c], side)
                    \in FloatSums(0, DistanceVoters(c, side) \cap cast, side)
    /\ rpc = "decided" =>
         /\ DOMAIN flip = DOMAIN C
         /\ \A f \in DOMAIN C :
              /\ flip[f] = Flag(C_vote_parity[C[f]], C_vote_infinity[C[f]],
                                C_vote_distance[C[f]])
              /\ \A g \in DOMAIN C : C[g] = C[f] => flip[g] = flip[f]
              /\ (\/ use_parity
                  \/ C_vote_infinity[C[f]].first
                       # C_vote_infinity[C[f]].second)
                   => flip[f] = SequentialFlag(C[f])

\* the loop has ended in distance mode, three rays of one patch have voted
\* a distance on each side, and the schedule has changed both the front sum
\* and the flag of the patch
C12_Witness ==
    /\ rpc = "decided"
    /\ ~use_parity
    /\ \E c \in DOMAIN C_vote_distance :
         /\ Cardinality(DistanceVoters(c, "front")) >= 3
         /\ C_vote_infinity[c].first = C_vote_infinity[c].second
         /\ C_vote_distance[c].first # SequentialSum(c, "front", Rows(rays))
         /\ \E f \in DOMAIN C : C[f] = c /\ flip[f] # SequentialFlag(c)

============================================================================
